---------------------------- MODULE Spec2Model ----------------------------
(***************************************************************************)
(* Name normalisation of mod1/mod1_modules/pokemon.py, with the cleaner    *)
(* and the output file of mod1/build_full_pokedex.py.                      *)
(*                                                                         *)
(* A Python str is a sequence of characters; a character is a one-letter   *)
(* string.  The three characters outside ASCII that the code names are     *)
(* written by their code point: "U+2019", "U+2018", "U+2013", and so is the *)
(* grave accent, "U+0060".  None is the one-element sequence <<"None">>,   *)
(* which is no str of the alphabet.                                        *)
(***************************************************************************)
EXTENDS Integers, Sequences, FiniteSets, TLC

(***************************************************************************)
(* Characters and the str methods the code uses                            *)
(***************************************************************************)
None == <<"None">>

LowerLetters ==
    <<"a","b","c","d","e","f","g","h","i","j","k","l","m",
      "n","o","p","q","r","s","t","u","v","w","x","y","z">>

UpperLetters ==
    <<"A","B","C","D","E","F","G","H","I","J","K","L","M",
      "N","O","P","Q","R","S","T","U","V","W","X","Y","Z">>

Range(f) == {f[i] : i \in DOMAIN f}

LowerSet == Range(LowerLetters)

UpperSet == Range(UpperLetters)

DigitSet == {"0","1","2","3","4","5","6","7","8","9"}

\* str.isspace(): what strip(), split() and the regex class \s remove or match
Whitespace == {" ", "\t"}

RSQUO == "U+2019"

LSQUO == "U+2018"

NDASH == "U+2013"

\* the grave accent
GRAVE == "U+0060"

\* the regex class \w on str: letters, digits and the underscore
WordChar(c) == c \in LowerSet \cup UpperSet \cup DigitSet \cup {"_"}

LowerOf == [c \in UpperSet |-> LowerLetters[CHOOSE i \in 1..26 : UpperLetters[i] = c]]

\* str.lower(), one character
lower_char(c) == IF c \in UpperSet THEN LowerOf[c] ELSE c

\* str.lower()
lower(s) == [i \in 1..Len(s) |-> lower_char(s[i])]

\* str.replace(old, new) for a one-character old and new
replace(s, old, new) == [i \in 1..Len(s) |-> IF s[i] = old THEN new ELSE s[i]]

RECURSIVE lstrip(_)
lstrip(s) ==
    IF s # <<>> /\ Head(s) \in Whitespace THEN lstrip(Tail(s)) ELSE s

RECURSIVE rstrip(_)
rstrip(s) ==
    IF s # <<>> /\ s[Len(s)] \in Whitespace
    THEN rstrip(SubSeq(s, 1, Len(s) - 1))
    ELSE s

\* str.strip()
strip(s) == rstrip(lstrip(s))

\* str.split(): the maximal runs of non-whitespace characters, in order
RECURSIVE split_from(_, _, _, _)
split_from(s, i, word, acc) ==
    IF i > Len(s)
    THEN IF word = <<>> THEN acc ELSE Append(acc, word)
    ELSE IF s[i] \in Whitespace
         THEN split_from(s, i + 1, <<>>, IF word = <<>> THEN acc ELSE Append(acc, word))
         ELSE split_from(s, i + 1, Append(word, s[i]), acc)

split(s) == split_from(s, 1, <<>>, <<>>)

\* " ".join(parts)
RECURSIVE join(_)
join(parts) ==
    IF parts = <<>> THEN <<>>
    ELSE IF Len(parts) = 1 THEN parts[1]
    ELSE parts[1] \o <<" ">> \o join(Tail(parts))

\* f"{a} {b}"
fmt2(a, b) == a \o <<" ">> \o b

\* f"{a} {b} {c}"
fmt3(a, b, c) == a \o <<" ">> \o b \o <<" ">> \o c

(***************************************************************************)
(* The regular expressions.  A pattern is a sequence of items, each a      *)
(* character class with a least count and a flag for "+" or "*"; every     *)
(* quantifier of the three patterns is greedy and every pattern is         *)
(* anchored at both ends.  ReMatch walks the items the way the             *)
(* backtracking matcher does: each item first takes the longest run it     *)
(* can and gives characters back one at a time until the rest matches.     *)
(***************************************************************************)
NoMatch == <<-1>>

\* [\w\-\.\' %]
NameClass(c) == WordChar(c) \/ c \in {"-", ".", "'", " ", "%"}

\* a separator class that lost its hyphen
SepClassNoHyphen(c) == c \in Whitespace \cup {"_", ":", ","}

\* [\s\-\_:,]
SepClass(c) == c \in Whitespace \cup {"-", "_", ":", ","}

InClass(c, cls) ==
    CASE cls = "name"   -> NameClass(c)
      [] cls = "space"  -> c \in Whitespace
      [] cls = "sep"    -> SepClass(c)
      [] cls = "lparen" -> c = "("
      [] cls = "rparen" -> c = ")"
      [] cls = "notrparen" -> c # ")"

Item(cls, least, many) == [cls |-> cls, least |-> least, many |-> many]

\* ^(?P<base>[\w\-\.\' %]+)\s*\(\s*(?P<form>[^)]+)\s*\)\s*$
RE_PAREN ==
    << Item("name", 1, TRUE), Item("space", 0, TRUE), Item("lparen", 1, FALSE),
       Item("space", 0, TRUE), Item("notrparen", 1, TRUE), Item("space", 0, TRUE),
       Item("rparen", 1, FALSE), Item("space", 0, TRUE) >>

\* ^(?P<form>[\w\-\.\' %]+)\s+(?P<base>[\w\-\.\' %]+)$
RE_PREFIX ==
    << Item("name", 1, TRUE), Item("space", 1, TRUE), Item("name", 1, TRUE) >>

\* ^(?P<base>[\w\-\.\' %]+)[\s\-\_:,]+(?P<form>[\w\-\.\' %]+)$
RE_SUFFIX ==
    << Item("name", 1, TRUE), Item("sep", 1, TRUE), Item("name", 1, TRUE) >>

\* the number of characters of cls in a row from position pos on
RECURSIVE RunLen(_, _, _)
RunLen(s, pos, cls) ==
    IF pos <= Len(s) /\ InClass(s[pos], cls) THEN 1 + RunLen(s, pos + 1, cls) ELSE 0

RECURSIVE ReMatch(_, _, _, _)
RECURSIVE ReTry(_, _, _, _, _)
\* the lengths the items k.. take when they match s from pos to the end
ReMatch(pat, k, s, pos) ==
    IF k > Len(pat)
    THEN IF pos = Len(s) + 1 THEN <<>> ELSE NoMatch
    ELSE LET run == RunLen(s, pos, pat[k].cls)
         IN  ReTry(pat, k, s, pos, IF pat[k].many \/ run = 0 THEN run ELSE 1)

ReTry(pat, k, s, pos, n) ==
    IF n < pat[k].least THEN NoMatch
    ELSE LET rest == ReMatch(pat, k + 1, s, pos + n)
         IN  IF rest # NoMatch THEN <<n>> \o rest
             ELSE ReTry(pat, k, s, pos, n - 1)

\* pattern.match(s): the items' lengths, or NoMatch
re_match(pat, s) == ReMatch(pat, 1, s, 1)

RECURSIVE SumTo(_, _)
SumTo(lens, k) == IF k = 0 THEN 0 ELSE lens[k] + SumTo(lens, k - 1)

\* m.group(...) of the k-th item
group(s, lens, k) == SubSeq(s, SumTo(lens, k - 1) + 1, SumTo(lens, k))

(***************************************************************************)
(* pokemon.py: the variant table, the cleaner and the tokenizer            *)
(***************************************************************************)
alolan == <<"a","l","o","l","a","n">>

alola == <<"a","l","o","l","a">>

galarian == <<"g","a","l","a","r","i","a","n">>

galar == <<"g","a","l","a","r">>

hisuian == <<"h","i","s","u","i","a","n">>

hisuia == <<"h","i","s","u","i","a">>

paldean == <<"p","a","l","d","e","a","n">>

paldea == <<"p","a","l","d","e","a">>

mega == <<"m","e","g","a">>

gigantamax == <<"g","i","g","a","n","t","a","m","a","x">>

gmax == <<"g","m","a","x">>

\* pokemon.py _VARIANT_MAP
_VARIANT_MAP ==
    (alolan :> alolan) @@ (alola :> alolan) @@
    (galarian :> galarian) @@ (galar :> galarian) @@
    (hisuian :> hisuian) @@ (hisuia :> hisuian) @@
    (paldean :> paldean) @@ (paldea :> paldean) @@
    (mega :> mega) @@
    (gigantamax :> gigantamax) @@ (gmax :> gigantamax)

\* pokemon.py _clean_token
_clean_token(tok) ==
    IF tok = None THEN <<>>
    ELSE LET s == replace(replace(strip(tok), RSQUO, "'"), GRAVE, "'")
         IN  lower(join(split(s)))

\* build_full_pokedex.py clean_token: the same, and every period removed
clean_token(tok) ==
    IF tok = None \/ tok = <<>> THEN <<>>
    ELSE LET s == SelectSeq(strip(tok), LAMBDA c : c # ".")
         IN  lower(join(split(replace(replace(s, RSQUO, "'"), GRAVE, "'"))))

\* pokemon.py _tokens
_tokens(s) == SelectSeq(split(s), LAMBDA t : t # <<>>)

(***************************************************************************)
(* pokemon.py: pokedex.json and _load_pokedex_names.  The file is absent,  *)
(* or it cannot be opened ("unreadable"), or it holds text that json.load  *)
(* rejects ("invalid"), or a JSON value:                                   *)
(* a list of entries ("list"), an object with a list under "pokemon"       *)
(* ("pokemon"), an object of entries ("map") or anything else ("other").   *)
(* An entry is the str of its "name" field, or None when it is no object   *)
(* with a "name" field.  The entries of an unreadable file are those it    *)
(* would give if it could be opened, the entries of an invalid file those  *)
(* of the records written before the text breaks off.                      *)
(***************************************************************************)
File(exists, json, entries) == [exists |-> exists, json |-> json, entries |-> entries]

NoFile == File(FALSE, "other", {})

\* _find_pokedex_path: a path exactly when the file is there
_find_pokedex_path(file) == file.exists

\* the names set built in the try block: str(entry["name"]).strip().lower()
names_of(file) ==
    IF file.json \in {"list", "pokemon", "map"}
    THEN {lower(strip(e)) : e \in file.entries \ {None}}
    ELSE {}

\* lines 74-75: open() or json.load() raises inside the try block
raises_in_try(file) == file.json \in {"unreadable", "invalid"}

\* a loader that keeps the names of the records read before the failure
load_keeping_partial_names(file) ==
    IF ~_find_pokedex_path(file) THEN {}
    ELSE IF raises_in_try(file) THEN {lower(strip(e)) : e \in file.entries \ {None}}
    ELSE names_of(file)

\* what _load_pokedex_names leaves in _POKEDEX_NAMES_SET when it runs alone
_load_pokedex_names(file) ==
    IF ~_find_pokedex_path(file) THEN {}
    ELSE IF raises_in_try(file) THEN {}
    ELSE names_of(file)

(***************************************************************************)
(* pokemon.py: _find_base_from_tokens                                      *)
(***************************************************************************)
\* tokens[start:end] for 0-based start and end
slice(seq, start, end) == SubSeq(seq, start + 1, end)

\* the two loops: length from n down to 1, start from 0 up to n - length
RECURSIVE find_window(_, _, _, _)
find_window(tokens, names, length, start) ==
    IF length < 1 THEN None
    ELSE IF start > Len(tokens) - length
    THEN find_window(tokens, names, length - 1, 0)
    ELSE LET end == start + length
             phrase == join(slice(tokens, start, end))
             phrase_clean == _clean_token(phrase)
         IN  IF phrase_clean \in names
             THEN <<start, end, phrase_clean>>
             ELSE find_window(tokens, names, length, start + 1)

\* a search that tries the short windows first
RECURSIVE find_window_up(_, _, _, _)
find_window_up(tokens, names, length, start) ==
    IF length > Len(tokens) THEN None
    ELSE IF start > Len(tokens) - length
    THEN find_window_up(tokens, names, length + 1, 0)
    ELSE LET end == start + length
             phrase_clean == _clean_token(join(slice(tokens, start, end)))
         IN  IF phrase_clean \in names
             THEN <<start, end, phrase_clean>>
             ELSE find_window_up(tokens, names, length, start + 1)

find_base_shortest_first(tokens, names) ==
    IF names = {} THEN None
    ELSE find_window_up(tokens, names, 1, 0)

_find_base_from_tokens(tokens, names) ==
    IF names = {} THEN None
    ELSE find_window(tokens, names, Len(tokens), 0)

(***************************************************************************)
(* pokemon.py: normalize_name.  The value is the str returned, None, or    *)
(* the exception raised; step names the return statement taken, form the   *)
(* cleaned form token of a template and region the canonical tag found.    *)
(***************************************************************************)
IndexError == <<"IndexError">>

Ret(value, step, form, region) ==
    [value |-> value, step |-> step, form |-> form, region |-> region]

\* the body shared by the three templates: clean both groups, look the form up
template(base_orig, form_orig, step) ==
    LET base == _clean_token(base_orig)
        form == _clean_token(form_orig)
    IN  IF form \in DOMAIN _VARIANT_MAP
        THEN Ret(strip(fmt2(_VARIANT_MAP[form], base)), step, form, _VARIANT_MAP[form])
        ELSE Ret(strip(fmt2(form, base)), step, form, None)

\* region_token: the tag of the first token the table knows
RECURSIVE first_region(_)
first_region(toks) ==
    IF toks = <<>> THEN None
    ELSE IF Head(toks) \in DOMAIN _VARIANT_MAP THEN _VARIANT_MAP[Head(toks)]
    ELSE first_region(Tail(toks))

\* a fallback that lost its region branch
fallback_without_region(region_token, tokens_no_region) ==
    IF Len(tokens_no_region) = 1
    THEN Ret(tokens_no_region[1], "fallback", None, None)
    ELSE IF tokens_no_region = <<>>
    THEN Ret(IndexError, "raise", None, None)
    ELSE Ret(strip(fmt2(strip(join(SubSeq(tokens_no_region, 1, Len(tokens_no_region) - 1))),
                        tokens_no_region[Len(tokens_no_region)])),
             "fallback", None, None)

\* 5) the fallback heuristics
fallback(region_token, tokens_no_region) ==
    IF region_token # None
    THEN LET remainder == strip(join(tokens_no_region))
         IN  IF remainder # <<>>
             THEN Ret(strip(fmt2(region_token, remainder)), "fallback", None, region_token)
             ELSE Ret(region_token, "fallback", None, region_token)
    ELSE IF Len(tokens_no_region) = 1
    THEN Ret(tokens_no_region[1], "fallback", None, None)
    ELSE IF tokens_no_region = <<>>
    THEN Ret(IndexError, "raise", None, None)
    ELSE LET forms_part == strip(join(SubSeq(tokens_no_region, 1, Len(tokens_no_region) - 1)))
             base_guess == tokens_no_region[Len(tokens_no_region)]
         IN  IF forms_part # <<>>
             THEN Ret(strip(fmt2(forms_part, base_guess)), "fallback", None, None)
             ELSE Ret(base_guess, "fallback", None, None)

\* 4) the token-based step
token_based(s, names) ==
    LET toks == [i \in 1..Len(_tokens(s)) |-> _clean_token(_tokens(s)[i])]
    IN  IF toks = <<>> THEN Ret(None, "notokens", None, None)
        ELSE
        LET region_token == first_region(toks)
            tokens_no_region == SelectSeq(toks, LAMBDA t : t \notin DOMAIN _VARIANT_MAP)
            base_match == _find_base_from_tokens(tokens_no_region, names)
        IN  IF base_match # None
            THEN LET start == base_match[1]
                     end == base_match[2]
                     base_name == base_match[3]
                     forms == slice(tokens_no_region, 0, start)
                                \o slice(tokens_no_region, end, Len(tokens_no_region))
                     forms_part == strip(join(forms))
                 IN  IF forms # <<>>
                     THEN IF region_token # None
                          THEN Ret(strip(fmt3(region_token, forms_part, base_name)),
                                   "tokens", None, region_token)
                          ELSE Ret(strip(fmt2(forms_part, base_name)), "tokens", None, None)
                     ELSE IF region_token # None
                          THEN Ret(strip(fmt2(region_token, base_name)),
                                   "tokens", None, region_token)
                          ELSE Ret(base_name, "tokens", None, None)
            ELSE fallback(region_token, tokens_no_region)

\* the early exact-match guard: s.strip().lower() in _POKEDEX_NAMES_SET
exact_match(s, names) == names # {} /\ lower(strip(s)) \in names

\* 1), 2), 3): the templates in their order, then 4)
templates(s, names) ==
    LET mp == re_match(RE_PAREN, s)
        mx == re_match(RE_PREFIX, s)
        ms == re_match(RE_SUFFIX, s)
    IN  IF mp # NoMatch THEN template(group(s, mp, 1), group(s, mp, 5), "paren")
        ELSE IF mx # NoMatch THEN template(group(s, mx, 3), group(s, mx, 1), "prefix")
        ELSE IF ms # NoMatch THEN template(group(s, ms, 1), group(s, ms, 3), "suffix")
        ELSE token_based(s, names)

\* s after the unified punctuation
unify(s) == replace(replace(replace(s, RSQUO, "'"), LSQUO, "'"), NDASH, "-")

normalize_name(raw, names) ==
    IF raw = None \/ raw = <<>> THEN Ret(None, "empty", None, None)
    ELSE IF strip(raw) = <<>> THEN Ret(None, "empty", None, None)
    ELSE LET s == unify(strip(raw))
         IN  IF exact_match(s, names)
             THEN Ret(lower(strip(s)), "exact", None, None)
             ELSE templates(s, names)

(***************************************************************************)
(* The files pokedex.json may be.  ScenarioFile is the dictionary of the   *)
(* specification's scenarios, as build_full_pokedex.py writes it (a list,  *)
(* names cleaned); HandFile is a hand-written catalog under "pokemon" whose*)
(* names carry upper case, a double space, padding and punctuation, with   *)
(* one entry that has no name; VariantsFile is a map of records with one   *)
(* name per variant tag and with names that are parts of other names;      *)
(* BrokenFile is a list that breaks off after its first record and so is  *)
(* no JSON; LockedFile is a list the process may not open; ResultsFile is  *)
(* an object that holds its list of records under "results", which is no   *)
(* list, no object with a list under "pokemon" and no object of records.   *)
(***************************************************************************)
n_vulpix == <<"v","u","l","p","i","x">>

n_alolan_vulpix == <<"a","l","o","l","a","n"," ","v","u","l","p","i","x">>

n_meowth == <<"m","e","o","w","t","h">>

n_galarian_meowth == <<"g","a","l","a","r","i","a","n"," ","m","e","o","w","t","h">>

n_mr_mime == <<"m","r"," ","m","i","m","e">>

n_Mr__Mime == <<"M","r"," "," ","M","i","m","e">>

n_Type_Null == <<"T","y","p","e",":"," ","N","u","l","l">>

n_Mimikyu == <<"M","i","m","i","k","y","u">>

n_mime == <<"m","i","m","e">>

n_Ho_Oh == <<" ","H","o","-","O","h"," ">>

n_Sirfetchd == <<"S","i","r","f","e","t","c","h","'","d">>

n_galarian_vulpix == <<"g","a","l","a","r","i","a","n"," ","v","u","l","p","i","x">>

n_hisuian_vulpix == <<"h","i","s","u","i","a","n"," ","v","u","l","p","i","x">>

n_paldean_vulpix == <<"p","a","l","d","e","a","n"," ","v","u","l","p","i","x">>

n_mega_vulpix == <<"m","e","g","a"," ","v","u","l","p","i","x">>

n_gigantamax_vulpix == <<"g","i","g","a","n","t","a","m","a","x"," ","v","u","l","p","i","x">>

n_alolan_ho_oh == <<"a","l","o","l","a","n"," ","h","o","-","o","h">>

n_galarian_sirfetchd == <<"g","a","l","a","r","i","a","n"," ","s","i","r","f","e","t","c","h","'","d">>

ScenarioFile ==
    File(TRUE, "list", {n_vulpix, n_alolan_vulpix, n_meowth, n_galarian_meowth, n_mr_mime})

HandFile ==
    File(TRUE, "pokemon",
         {n_Mr__Mime, n_Type_Null, n_Mimikyu, n_Ho_Oh, n_Sirfetchd, None})

VariantsFile ==
    File(TRUE, "map",
         {n_vulpix, n_alolan_vulpix, n_galarian_vulpix, n_hisuian_vulpix, n_paldean_vulpix,
          n_mega_vulpix, n_gigantamax_vulpix, n_alolan_ho_oh, n_galarian_meowth,
          n_galarian_sirfetchd, n_mr_mime, n_mime, n_Mimikyu})

BrokenFile == File(TRUE, "invalid", {n_vulpix})

LockedFile == File(TRUE, "unreadable", {n_vulpix, n_meowth})

ResultsFile == File(TRUE, "other", {n_vulpix})

Files == {NoFile, ScenarioFile, HandFile, VariantsFile, BrokenFile, LockedFile, ResultsFile}

CatalogNames == UNION {f.entries \ {None} : f \in Files}

(***************************************************************************)
(* The raw strings handed to normalize_name and the token lists handed to  *)
(* _find_base_from_tokens.                                                 *)
(***************************************************************************)
\* the longest run of spaces put between two words of a re-spaced name
MaxSpaces == 2

\* the most words of a free text and the most tokens of a token list
MaxTokens == 3

UpperOf == [c \in LowerSet |-> UpperLetters[CHOOSE i \in 1..26 : LowerLetters[i] = c]]

\* str.upper()
upper(s) == [i \in 1..Len(s) |-> IF s[i] \in LowerSet THEN UpperOf[s[i]] ELSE s[i]]

Spaces(k) == [i \in 1..k |-> " "]

\* s with every space replaced by gap
RECURSIVE respace(_, _)
respace(s, gap) ==
    IF s = <<>> THEN <<>>
    ELSE (IF Head(s) = " " THEN gap ELSE <<Head(s)>>) \o respace(Tail(s), gap)

BlankInputs == {None, <<>>, <<" ">>, <<"\t", " ">>}

\* a catalog name as it is, in upper and in lower case, re-spaced and padded
CopiesOf(n) ==
    {n, upper(n), lower(n), <<" ">> \o n \o <<"\t">>, respace(n, <<"\t">>)}
      \cup {respace(upper(n), Spaces(k)) : k \in 1..MaxSpaces}
      \cup {respace(lower(strip(n)), Spaces(k)) : k \in 1..MaxSpaces}

CatalogCopies == UNION {CopiesOf(n) : n \in CatalogNames}

Vulpix == <<"V","u","l","p","i","x">>

Meowth_lc == <<"m","e","o","w","t","h">>

Ho_Oh == <<"H","o","-","O","h">>

Alolan == <<"A","l","o","l","a","n">>

Alola == <<"A","l","o","l","a">>

GALAR == <<"G","A","L","A","R">>

hisui == <<"h","i","s","u","i">>

shiny == <<"s","h","i","n","y">>

mr == <<"m","r">>

Mime == <<"M","i","m","e">>

mimikyu == <<"m","i","m","i","k","y","u">>

busted == <<"b","u","s","t","e","d">>

bang == <<"!">>

\* the form tokens typed: every key of the table, some in upper case, and two
\* the table does not hold
FormsTyped == DOMAIN _VARIANT_MAP \cup {Alolan, Alola, GALAR, hisui, shiny}

\* the single-word bases typed
BasesTyped == {Vulpix, Meowth_lc, Ho_Oh, n_Sirfetchd}

\* the surface spellings of a base with a form
Parenthetical(b, f) == b \o <<" ", "(">> \o f \o <<")">>

ParentheticalTight(b, f) == b \o <<"(">> \o f \o <<")">>

Prefixed(f, b) == f \o <<" ">> \o b

Hyphenated(b, f) == b \o <<"-">> \o f

Separated(b, sep, f) == b \o sep \o f

Separators == {<<",", " ">>, <<":", " ">>, <<" ", "-", " ">>, <<"_">>}

Spellings(b, f) ==
    {Parenthetical(b, f), ParentheticalTight(b, f), Prefixed(f, b), Hyphenated(b, f)}
      \cup {Separated(b, sep, f) : sep \in Separators}

SurfaceSpellings == UNION {Spellings(b, f) : b \in BasesTyped, f \in FormsTyped}

FreeWords == {mr, Mime, mimikyu, busted, mega, bang}

TokenLists == UNION {[1..k -> FreeWords] : k \in 0..MaxTokens}

FreeTexts == {join(toks) : toks \in TokenLists \ {<<>>}}

\* the inputs of the scenarios, and some with the punctuation the code names
in_Mr_Mime == <<"M","r","."," ","M","i","m","e">>

in_Totally == <<"T","o","t","a","l","l","y"," ","U","n","k","n","o","w","n"," ","C","r","e","a","t","u","r","e">>

in_busted == <<"b","u","s","t","e","d"," ","m","i","m","i","k","y","u"," ","t","o","t","e","m">>

in_Alolan_Shiny == <<"V","u","l","p","i","x"," ","(","A","l","o","l","a","n",","," ","S","h","i","n","y",")">>

in_Alola_Mr_Mime == <<"A","l","o","l","a"," ","M","r"," ","M","i","m","e">>

in_Mr_Mime_Alola == <<"M","r"," ","M","i","m","e"," ","(","A","l","o","l","a",")">>

in_Type_Null == <<"T","y","p","e",":"," "," ","N","u","l","l">>

in_Sirfetchd == <<"S","i","r","f","e","t","c","h","U+2019","d">>

in_Vulpix_ndash == <<"V","u","l","p","i","x","U+2013","a","l","o","l","a">>

in_empty_paren == <<"V","u","l","p","i","x"," ","("," ",")">>

in_open_paren == <<"V","u","l","p","i","x"," ","(","A","l","o","l","a","n">>

in_mega_gmax == <<"m","e","g","a"," ","g","m","a","x">>

in_grave == <<"S","i","r","f","e","t","c","h","U+0060","d"," ","m","e","g","a">>

ScenarioInputs ==
    {in_Mr_Mime,
     in_Totally,
     in_busted,
     in_Alolan_Shiny,
     in_Alola_Mr_Mime,
     in_Mr_Mime_Alola,
     in_Type_Null,
     in_Sirfetchd,
     in_Vulpix_ndash,
     in_empty_paren,
     in_open_paren,
     in_mega_gmax,
     in_grave}

RawInputs == BlankInputs \cup CatalogCopies \cup SurfaceSpellings \cup FreeTexts \cup ScenarioInputs

(***************************************************************************)
(* State.  pokedex_json is the file; _POKEDEX_NAMES_SET and                *)
(* _POKEDEX_LOADED are the module's globals.  A caller is ready to call or *)
(* holds what its call returned: raw and ret for normalize_name, tokens    *)
(* and base_match for _find_base_from_tokens.  The thread variables belong *)
(* to callers that run _load_pokedex_names statement by statement.         *)
(***************************************************************************)
VARIABLES pokedex_json, _POKEDEX_NAMES_SET, _POKEDEX_LOADED,
          pc, call, raw, ret, tokens, base_match,
          tpc, tpath, tnames, load_runs, late_assign

globals == <<_POKEDEX_NAMES_SET, _POKEDEX_LOADED>>

caller == <<pc, call, raw, ret, tokens, base_match>>

threads == <<tpc, tpath, tnames, load_runs, late_assign>>

vars == <<pokedex_json, globals, caller, threads>>

\* the number of threads that call _load_pokedex_names
NumThreads == 2

Threads == 1..NumThreads

NoRet == Ret(None, "none", None, None)

Init ==
    /\ pokedex_json \in Files
    /\ _POKEDEX_NAMES_SET = {}
    /\ _POKEDEX_LOADED = FALSE
    /\ pc = "ready"
    /\ call = "none"
    /\ raw = None
    /\ ret = NoRet
    /\ tokens = <<>>
    /\ base_match = None
    /\ tpc = [t \in Threads |-> "idle"]
    /\ tpath = [t \in Threads |-> FALSE]
    /\ tnames = [t \in Threads |-> {}]
    /\ load_runs = 0
    /\ late_assign = FALSE

\* _POKEDEX_NAMES_SET after a call of _load_pokedex_names made with no other
\* caller inside it
names_after_load ==
    IF _POKEDEX_LOADED THEN _POKEDEX_NAMES_SET ELSE _load_pokedex_names(pokedex_json)

\* normalize_name returns before line 143 for an input that is empty or blank
reaches_guard(r) == r # None /\ r # <<>> /\ strip(r) # <<>>

\* one call of normalize_name(r), from its first line to its return
CallNormalizeName(r) ==
    /\ pc = "ready"
    /\ pc' = "returned"
    /\ call' = "normalize_name"
    /\ raw' = r
    /\ _POKEDEX_NAMES_SET' = IF reaches_guard(r) THEN names_after_load ELSE _POKEDEX_NAMES_SET
    /\ _POKEDEX_LOADED' = (_POKEDEX_LOADED \/ reaches_guard(r))
    /\ ret' = normalize_name(r, _POKEDEX_NAMES_SET')
    /\ UNCHANGED <<pokedex_json, tokens, base_match, threads>>

\* one call of _find_base_from_tokens(toks)
CallFindBase(toks) ==
    /\ pc = "ready"
    /\ pc' = "returned"
    /\ call' = "_find_base_from_tokens"
    /\ tokens' = toks
    /\ _POKEDEX_NAMES_SET' = names_after_load
    /\ _POKEDEX_LOADED' = TRUE
    /\ base_match' = _find_base_from_tokens(toks, _POKEDEX_NAMES_SET')
    /\ UNCHANGED <<pokedex_json, raw, ret, threads>>

\* the caller takes the value and goes on to its next call
Continue ==
    /\ pc = "returned"
    /\ pc' = "ready"
    /\ call' = "none"
    /\ raw' = None
    /\ ret' = NoRet
    /\ tokens' = <<>>
    /\ base_match' = None
    /\ UNCHANGED <<pokedex_json, globals, threads>>

Next ==
    \/ \E r \in RawInputs : CallNormalizeName(r)
    \/ \E toks \in TokenLists : CallFindBase(toks)
    \/ Continue

Spec == Init /\ [][Next]_vars

(***************************************************************************)
(* _load_pokedex_names run by several threads, one statement at a time.    *)
(* tpc[t] is the line thread t is about to run ("idle" outside the         *)
(* function), tpath[t] its local path and tnames[t] its local names.       *)
(* load_runs counts the times the body after line 64 was entered;          *)
(* late_assign records an assignment to _POKEDEX_NAMES_SET made while      *)
(* _POKEDEX_LOADED was already true.                                       *)
(***************************************************************************)
Goto(t, line) == tpc' = [tpc EXCEPT ![t] = line]

\* a caller enters _load_pokedex_names
Enter(t) ==
    /\ tpc[t] = "idle"
    /\ Goto(t, "L64")
    /\ UNCHANGED <<pokedex_json, globals, caller, tpath, tnames, load_runs, late_assign>>

\* line 64: if _POKEDEX_LOADED: return
L64(t) ==
    /\ tpc[t] = "L64"
    /\ IF _POKEDEX_LOADED
       THEN Goto(t, "idle") /\ UNCHANGED load_runs
       ELSE Goto(t, "L66") /\ load_runs' = load_runs + 1
    /\ UNCHANGED <<pokedex_json, globals, caller, tpath, tnames, late_assign>>

\* lines 66-67: path = _find_pokedex_path(); if not path
L66(t) ==
    /\ tpc[t] = "L66"
    /\ tpath' = [tpath EXCEPT ![t] = _find_pokedex_path(pokedex_json)]
    /\ Goto(t, IF _find_pokedex_path(pokedex_json) THEN "L73" ELSE "L69")
    /\ UNCHANGED <<pokedex_json, globals, caller, tnames, load_runs, late_assign>>

\* lines 69, 89 and 91: an assignment to _POKEDEX_NAMES_SET
Assign(t, line, value, next) ==
    /\ tpc[t] = line
    /\ _POKEDEX_NAMES_SET' = value
    /\ late_assign' = (late_assign \/ _POKEDEX_LOADED)
    /\ Goto(t, next)
    /\ UNCHANGED <<pokedex_json, _POKEDEX_LOADED, caller, tpath, tnames, load_runs>>

L69(t) == Assign(t, "L69", {}, "L70")

\* lines 70 and 92: _POKEDEX_LOADED = True, and the return
SetLoaded(t, line) ==
    /\ tpc[t] = line
    /\ _POKEDEX_LOADED' = TRUE
    /\ Goto(t, "idle")
    /\ UNCHANGED <<pokedex_json, _POKEDEX_NAMES_SET, caller, tpath, tnames, load_runs, late_assign>>

L70(t) == SetLoaded(t, "L70")

\* lines 73-88: read and parse the file, build the local names; open or
\* json.load raising leads to the except clause
L73(t) ==
    /\ tpc[t] = "L73"
    /\ IF raises_in_try(pokedex_json)
       THEN Goto(t, "L91") /\ UNCHANGED tnames
       ELSE Goto(t, "L89") /\ tnames' = [tnames EXCEPT ![t] = names_of(pokedex_json)]
    /\ UNCHANGED <<pokedex_json, globals, caller, tpath, load_runs, late_assign>>

L89(t) == Assign(t, "L89", tnames[t], "L92")

L91(t) == Assign(t, "L91", {}, "L92")

L92(t) == SetLoaded(t, "L92")

\* build_full_pokedex.py main writes pokedex.json: a list of cleaned names
BuildFullPokedex ==
    /\ pokedex_json # ScenarioFile
    /\ pokedex_json' = ScenarioFile
    /\ UNCHANGED <<globals, caller, threads>>

NextThreads ==
    \/ \E t \in Threads :
          \/ Enter(t)
          \/ L64(t)
          \/ L66(t)
          \/ L69(t)
          \/ L70(t)
          \/ L73(t)
          \/ L89(t)
          \/ L91(t)
          \/ L92(t)
    \/ BuildFullPokedex

SpecThreads == Init /\ [][NextThreads]_vars

(***************************************************************************)
(* One caller after another, with pokedex.json rewritten between calls:    *)
(* _load_pokedex_names called on its own or from normalize_name and        *)
(* _find_base_from_tokens, and build_full_pokedex.py run at any time.      *)
(***************************************************************************)
\* one call of _load_pokedex_names(), from line 64 to its return
CallLoadPokedexNames ==
    /\ pc = "ready"
    /\ pc' = "returned"
    /\ call' = "_load_pokedex_names"
    /\ _POKEDEX_NAMES_SET' = names_after_load
    /\ _POKEDEX_LOADED' = TRUE
    /\ ret' = Ret(None, "return", None, None)
    /\ UNCHANGED <<pokedex_json, raw, tokens, base_match, threads>>

\* the raw strings of the callers that run beside the loader
LoaderInputs == BlankInputs \cup ScenarioInputs

NextLoader ==
    \/ CallLoadPokedexNames
    \/ \E r \in LoaderInputs : CallNormalizeName(r)
    \/ \E toks \in TokenLists : CallFindBase(toks)
    \/ Continue
    \/ BuildFullPokedex

SpecLoader == Init /\ [][NextLoader]_vars

(***************************************************************************)
(* Properties of normalize_name and _find_base_from_tokens, read in the    *)
(* state a call has returned in.                                           *)
(***************************************************************************)
Normalized == pc = "returned" /\ call = "normalize_name"

Found == pc = "returned" /\ call = "_find_base_from_tokens"

s_scenario_mr_mime == <<"m","r"," ","m","i","m","e">>

s_galarian_meowth == <<"g","a","l","a","r","i","a","n"," ","m","e","o","w","t","h">>

\* C1: normalize_name is idempotent: whenever normalize_name(s) is not None,
\* normalize_name(normalize_name(s)) = normalize_name(s), whichever step made
\* the first result and whatever punctuation the input holds.
C1_Idempotent ==
    (Normalized /\ ret.value # None)
        => normalize_name(ret.value, _POKEDEX_NAMES_SET).value = ret.value

\* the cleaned form of a raw string as the claims word it: trimmed, lowercased,
\* whitespace runs collapsed to one space, curly quotes and en-dash unified
CleanedForm(r) == lower(join(split(unify(strip(r)))))

\* C2: exact-match priority: normalize_name(d) = d for every dictionary entry d,
\* and every raw string whose cleaned form is a dictionary entry d (an
\* upper-cased or re-spaced copy of d) is returned as exactly d.
C2_ExactMatchPriority ==
    (Normalized /\ raw # None)
        => /\ raw \in _POKEDEX_NAMES_SET => ret.value = raw
           /\ CleanedForm(raw) \in _POKEDEX_NAMES_SET => ret.value = CleanedForm(raw)

HasDoubleWhitespace(s) ==
    \E i \in 1..(Len(s) - 1) : s[i] \in Whitespace /\ s[i + 1] \in Whitespace

\* C3: a result that is not None holds no uppercase character, no leading or
\* trailing whitespace and no run of two or more whitespace characters, on every
\* return path and for every dictionary the loader can build.
C3_OutputInvariant ==
    (Normalized /\ ret.value # None)
        => /\ \A i \in 1..Len(ret.value) : ret.value[i] \notin UpperSet
           /\ strip(ret.value) = ret.value
           /\ ~HasDoubleWhitespace(ret.value)

\* the three surface spellings of C5
RegionSpellings(b, f) == {Parenthetical(b, f), Prefixed(f, b), Hyphenated(b, f)}

\* C5: when the dictionary holds "<tag> <base>", the spellings "<Base> (<Variant>)",
\* "<Variant> <Base>" and "<Base>-<variant>" all normalize to "<tag> <base>", for
\* every single-word base and every surface token the table maps to <tag>.
C5_RegionCanonicalization ==
    \A b \in BasesTyped, f \in FormsTyped :
        (/\ Normalized
         /\ lower(f) \in DOMAIN _VARIANT_MAP
         /\ fmt2(_VARIANT_MAP[lower(f)], lower(b)) \in _POKEDEX_NAMES_SET
         /\ raw \in RegionSpellings(b, f))
            => ret.value = fmt2(_VARIANT_MAP[lower(f)], lower(b))

\* C5 witness: "meowth-galar" has been normalized by the suffix template to
\* "galarian meowth" with the scenario dictionary loaded.
C5_Witness ==
    /\ Normalized
    /\ raw = Hyphenated(Meowth_lc, galar)
    /\ s_galarian_meowth \in _POKEDEX_NAMES_SET
    /\ ret.step = "suffix"
    /\ ret.value = s_galarian_meowth

\* the table as C6 lists it
ClaimedVariantTable ==
    (alola :> alolan) @@ (alolan :> alolan) @@
    (galar :> galarian) @@ (galarian :> galarian) @@
    (hisui :> hisuian) @@ (hisuia :> hisuian) @@ (hisuian :> hisuian) @@
    (paldea :> paldean) @@ (paldean :> paldean) @@
    (mega :> mega) @@
    (gmax :> gigantamax) @@ (gigantamax :> gigantamax)

\* C6: the classifier maps every listed surface token (alola, alolan, galar,
\* galarian, hisui, hisuia, hisuian, paldea, paldean, mega, gmax, gigantamax) to
\* the tag of its family and knows no other token; every tag maps to itself.
C6_VariantTable ==
    /\ (Normalized /\ ret.step \in {"paren", "prefix", "suffix"})
          => ret.region = IF ret.form \in DOMAIN ClaimedVariantTable
                          THEN ClaimedVariantTable[ret.form]
                          ELSE None
    /\ \A k \in DOMAIN _VARIANT_MAP :
          _VARIANT_MAP[k] \in DOMAIN _VARIANT_MAP
            /\ _VARIANT_MAP[_VARIANT_MAP[k]] = _VARIANT_MAP[k]

\* the window tokens[i:j], joined by single spaces and cleaned
WindowName(toks, i, j) == _clean_token(join(slice(toks, i, j)))

WindowMatches(toks, i, j, names) == WindowName(toks, i, j) \in names

Windows(toks) == {w \in (0..Len(toks)) \X (0..Len(toks)) : w[1] < w[2]}

\* C7: _find_base_from_tokens returns (start, end, name) where name is the
\* window tokens[start:end] joined and cleaned and is in the dictionary, no
\* longer window matches and no window as long starts further left; it returns
\* None exactly when no window matches, and always for an empty dictionary.
C7_LongestThenLeftmost ==
    Found =>
        LET names == _POKEDEX_NAMES_SET
            hits == {w \in Windows(tokens) : WindowMatches(tokens, w[1], w[2], names)}
        IN  /\ names = {} => base_match = None
            /\ base_match = None <=> hits = {}
            /\ base_match # None =>
                 LET start == base_match[1]
                     end == base_match[2]
                 IN  /\ <<start, end>> \in hits
                     /\ base_match[3] = WindowName(tokens, start, end)
                     /\ \A w \in hits :
                          \/ w[2] - w[1] < end - start
                          \/ w[2] - w[1] = end - start /\ w[1] >= start

\* C7 witness: with "mime" and "mr mime" both in the dictionary the tokens
\* [mr, Mime] have been resolved to the window (0, 2), "mr mime".
C7_Witness ==
    /\ Found
    /\ tokens = <<mr, Mime>>
    /\ {n_mime, n_mr_mime} \subseteq _POKEDEX_NAMES_SET
    /\ base_match = <<0, 2, n_mr_mime>>

\* the composition C8 words: the tag, the leftover tokens in their order, the
\* matched base last, single spaces between, empty parts left out
LeftoverComposition(region_token, leftovers, base_name) ==
    join(SelectSeq(<<IF region_token = None THEN <<>> ELSE region_token,
                     join(leftovers), base_name>>,
                   LAMBDA part : part # <<>>))

\* C8: a multi-word input that is no dictionary entry but holds a run of tokens
\* equal to one is returned as the region tag, then the leftover tokens in
\* their order, then the matched base.
C8_LeftoverComposition ==
    (Normalized /\ reaches_guard(raw)) =>
        LET s == unify(strip(raw))
            toks == [i \in 1..Len(_tokens(s)) |-> _clean_token(_tokens(s)[i])]
            rest == SelectSeq(toks, LAMBDA tk : tk \notin DOMAIN _VARIANT_MAP)
            hit == _find_base_from_tokens(rest, _POKEDEX_NAMES_SET)
        IN  (Len(toks) >= 2 /\ ~exact_match(s, _POKEDEX_NAMES_SET) /\ hit # None)
               => ret.value =
                    LeftoverComposition(first_region(toks),
                        slice(rest, 0, hit[1]) \o slice(rest, hit[2], Len(rest)),
                        hit[3])

\* C9: with the scenario dictionary, which holds the name as the builder's
\* clean_token stores it, "Mr. Mime" is returned by the exact-match guard as the
\* entry "mr mime" and is not parsed by a template.
C9_MrMime ==
    (/\ Normalized
     /\ raw = in_Mr_Mime
     /\ pokedex_json = ScenarioFile
     /\ clean_token(raw) \in _POKEDEX_NAMES_SET)
        => ret.value = s_scenario_mr_mime /\ ret.step = "exact"

Blank(r) == r = None \/ \A i \in 1..Len(r) : r[i] \in Whitespace

\* C10: normalize_name returns None exactly for None, the empty string and
\* whitespace alone; every other input ends in a string on one of the return
\* statements and nothing is raised, also with the empty dictionary of a missing
\* file; when no template matches and no run of tokens is in the dictionary the
\* call ends in the fallback.
C10_Total ==
    Normalized =>
        /\ ret.value = None <=> Blank(raw)
        /\ ret.value # IndexError
        /\ ret.step \in {"empty", "exact", "paren", "prefix", "suffix", "tokens", "fallback"}
        /\ ret.step = "empty" <=> Blank(raw)
        /\ (~Blank(raw) /\ ret.step \notin {"exact", "paren", "prefix", "suffix", "tokens"})
              => ret.step = "fallback" /\ ret.value # None /\ ret.value # <<>>

\* C10 witness: pokedex.json is missing, the dictionary is empty, and an input
\* that is one region token has come out of the fallback as a string.
C10_Witness ==
    /\ Normalized
    /\ pokedex_json = NoFile
    /\ _POKEDEX_NAMES_SET = {}
    /\ raw = mega
    /\ ret.step = "fallback"
    /\ ret.value = mega

\* C4: the dictionary load runs at most once per process, also with several
\* callers inside _load_pokedex_names before the first load has completed: the
\* body after the check of _POKEDEX_LOADED is never executed twice, and once
\* _POKEDEX_LOADED is true _POKEDEX_NAMES_SET is never assigned again.
C4_LoadAtMostOnce == load_runs <= 1 /\ ~late_assign

\* the words of an input the templates can take whole: no parentheses, every
\* character one a template group accepts
PlainWords(r) ==
    IF \A i \in 1..Len(unify(strip(r))) : NameClass(unify(strip(r))[i])
    THEN split(unify(strip(r)))
    ELSE <<>>

\* C12: an input without parentheses that is no dictionary entry and is a
\* recognized variant token followed by two or more base words ("Alola Mr
\* Mime") is split by the prefix template right after the variant token, the
\* token is classified, and the result is the canonical tag followed by the
\* base words ("alolan mr mime"), as for the spelling "Mr Mime (Alola)".
C12_PrefixLeadingVariant ==
    (Normalized /\ reaches_guard(raw)) =>
        LET words == PlainWords(raw)
            names == _POKEDEX_NAMES_SET
        IN  (/\ Len(words) >= 3
             /\ ~exact_match(unify(strip(raw)), names)
             /\ _clean_token(words[1]) \in DOMAIN _VARIANT_MAP
             /\ \A i \in 2..Len(words) : _clean_token(words[i]) \notin DOMAIN _VARIANT_MAP)
               => LET tag == _VARIANT_MAP[_clean_token(words[1])]
                      base == join(Tail(words))
                  IN  /\ ret.step = "prefix"
                      /\ ret.form = _clean_token(words[1])
                      /\ ret.region = tag
                      /\ ret.value = fmt2(tag, _clean_token(base))
                      /\ ret.value = normalize_name(Parenthetical(base, words[1]), names).value

\* a step in which _load_pokedex_names was called: on its own, by
\* _find_base_from_tokens, or by normalize_name past its empty-input returns
LoaderCalled ==
    /\ pc = "ready"
    /\ pc' = "returned"
    /\ \/ call' \in {"_load_pokedex_names", "_find_base_from_tokens"}
       \/ call' = "normalize_name" /\ reaches_guard(raw')

\* the sources C11 lists as failures
FailedSource(file) == ~file.exists \/ file.json \in {"unreadable", "invalid", "other"}

\* the set C11 words: empty for a failed source, else the trimmed, lowercased
\* name of every record that has one
ClaimedNames(file) ==
    IF FailedSource(file) THEN {}
    ELSE {lower(strip(e)) : e \in file.entries \ {None}}

\* C11: when pokedex.json is absent, unreadable, no valid JSON or of an
\* unrecognized shape, _load_pokedex_names raises nothing, leaves
\* _POKEDEX_NAMES_SET empty (never partly filled) and sets _POKEDEX_LOADED, so
\* that no later call reads the source again; for a list of records, an object
\* with a list under "pokemon" or a map of records the set is exactly the
\* trimmed, lowercased name of every record that has a name field.
C11_LoaderContract ==
    [][LoaderCalled =>
          /\ _POKEDEX_LOADED'
          /\ call' = "_load_pokedex_names" => ret' = Ret(None, "return", None, None)
          /\ IF _POKEDEX_LOADED
             THEN _POKEDEX_NAMES_SET' = _POKEDEX_NAMES_SET
             ELSE _POKEDEX_NAMES_SET' = ClaimedNames(pokedex_json)]_vars

\* C11 witness: the first load found a failed source and left the set empty;
\* build_full_pokedex.py then wrote the scenario file, and a later call of
\* _load_pokedex_names has returned without reading it.
C11_Witness ==
    /\ pc = "returned"
    /\ call = "_load_pokedex_names"
    /\ pokedex_json = ScenarioFile
    /\ _POKEDEX_LOADED
    /\ _POKEDEX_NAMES_SET = {}

=============================================================================
